---- MODULE Spec2Model ----
(***************************************************************************)
(* gopro-sync (src/app.py): the command loop of main() and the functions   *)
(* it calls: connect_camera, enforce_camera_settings, disconnect_cameras,  *)
(* ready_to_record and record.  One command thread; the only concurrency   *)
(* is the two asyncio.TaskGroup fan-outs of record().                      *)
(***************************************************************************)
EXTENDS Integers, Sequences, FiniteSets, TLC

\* ------------------------------------------------------------- bounds

\* Number of commands the operator gives at the main prompt.
MaxCommands == 3
\* Number of passes of the connect loop (the operator answers "Retry?" with
\* yes at most MaxPasses - 1 times).
MaxPasses == 2

\* The cameras that exist around the operator.
Names == {"Cam1", "Cam2"}

\* ------------------------------------------------------------- helpers

\* Sequences without repetition over S: the key orders a dict can have.
RECURSIVE Perms(_)
Perms(S) ==
  IF S = {} THEN {<<>>}
  ELSE UNION {{<<x>> \o p : p \in Perms(S \ {x})} : x \in S}

\* What BleakScanner can report: any set of the cameras, in any order.
ScanResults == UNION {Perms(S) : S \in SUBSET Names}

SeqToSet(s) == {s[i] : i \in DOMAIN s}

\* connected_cameras is a Python dict (insertion ordered): a sequence of
\* entries [name, cam]; cam is the index of the WirelessGoPro in handles.
DictKeys(d) == {d[i].name : i \in DOMAIN d}

DictHas(d, k) == \E i \in DOMAIN d : d[i].name = k

DictGet(d, k) == (d[CHOOSE i \in DOMAIN d : d[i].name = k]).cam

\* d[k] = v
DictSet(d, k, v) ==
  IF DictHas(d, k)
  THEN [i \in DOMAIN d |-> IF d[i].name = k THEN [name |-> k, cam |-> v] ELSE d[i]]
  ELSE Append(d, [name |-> k, cam |-> v])

\* del d[k]
DictDel(d, k) == SelectSeq(d, LAMBDA e : e.name # k)

RECURSIVE DictDelAll(_, _)
DictDelAll(d, ks) ==
  IF ks = <<>> THEN d ELSE DictDelAll(DictDel(d, Head(ks)), Tail(ks))

\* ------------------------------------------------------------- state

VARIABLES
  pc,                  \* where the command thread is
  ncommands,           \* commands answered at the main prompt so far
  connected_cameras,   \* main(): dict name -> WirelessGoPro
  handles,             \* every WirelessGoPro whose open() succeeded
  found_devices,       \* main()/connect_camera: names found by the scan
  connect_prompt,      \* the operator's choice: "All", "None" or a name
  idx,                 \* position of the running for loop
  missed_connections,  \* connect_camera: names that failed in this pass
  retry,               \* connect_camera: loop flag
  passes,              \* passes of the connect loop run in this call
  opened_ok,           \* names whose open() succeeded in this pass
  open_failed,         \* names whose open() raised in this pass
  prev_missed,         \* connect_camera: names that failed in the pass before
  disconnected,        \* disconnect_cameras: names closed so far
  quit_flag,           \* disconnect_cameras: called from Quit
  running,             \* main(): loop flag
  exc,                 \* the exception that left main(), or "none"
  console_out,         \* the last message printed or logged
  ready,               \* main(): result of the last ready_to_record
  not_ready,           \* ready_to_record: cameras found not ready
  i,                   \* ready_to_record: status reads done for this camera
  cam_ready,           \* ready_to_record: ready, of the camera last checked
  batt_ready,          \* ready_to_record: batt_ready, same camera
  sdcard_ready,        \* ready_to_record: sdcard_ready, same camera
  reports,             \* ready_to_record: per camera checked in this call,
                       \* its three flags and what was read from it
  cancel_flag,         \* record(): set by the ESC release
  last_key,            \* record(): the key of the last release logged
  tasks,               \* record(): the tasks of the running TaskGroup
  shutter_cmds,        \* per camera, the shutter commands it was sent by
                       \* the last call of record()
  rec_result,          \* how the last call of record() returned
  enf_model,           \* enforce_camera_settings: model of this camera
  fps,                 \* _heroNN_settings: fps / frame_rate, or "unbound"
  lens,                \* _heroNN_settings: lens, or "unbound"
  settings,            \* enforce_camera_settings: the plan of this camera
  entry,               \* position in the plan (0: the preset loop before it)
  attempt,             \* the i of the running for i in range(retries)
  inflight,            \* requests sent to the camera and not yet answered
  last_write,          \* the last write answered: entry, attempt, status
  issued,              \* keys of the plan in the order of their first write
  enforced,            \* cameras whose whole plan was gone through
  unsupported,         \* cameras whose model has no plan
  exhausted,           \* pre-reads of this camera that failed every time
  timeout,             \* record(): its timeout argument: <<>> is None, <<n>> is n
  waited               \* record(): seconds the running listener has waited

vars == <<pc, ncommands, connected_cameras, handles, found_devices,
          connect_prompt, idx, missed_connections, retry, passes, opened_ok,
          open_failed, prev_missed, disconnected, quit_flag, running, exc, console_out,
          ready, not_ready, i, cam_ready, batt_ready, sdcard_ready, reports,
          cancel_flag, last_key, tasks, shutter_cmds, rec_result,
          enf_model, fps, lens, settings, entry, attempt, inflight, last_write,
          issued,
          enforced, unsupported, exhausted, timeout, waited>>

connectVars == <<found_devices, connect_prompt, missed_connections, retry,
                 passes, opened_ok, open_failed, prev_missed>>

disconnectVars == <<disconnected, quit_flag>>

readyVars == <<ready, not_ready, i, cam_ready, batt_ready, sdcard_ready,
               reports>>

recordVars == <<cancel_flag, last_key, tasks, shutter_cmds, rec_result>>

settingsVars == <<enf_model, fps, lens, settings, entry, attempt, inflight,
                  last_write, issued, enforced, unsupported, exhausted>>

timerVars == <<timeout, waited>>

NoWrite == [entry |-> 0, key |-> "none", attempt |-> 0, status |-> "none"]

Init ==
  /\ pc = "prompt"
  /\ ncommands = 0
  /\ connected_cameras = <<>>
  /\ handles = <<>>
  /\ found_devices = <<>>
  /\ connect_prompt = "None"
  /\ idx = 0
  /\ missed_connections = <<>>
  /\ retry = FALSE
  /\ passes = 0
  /\ opened_ok = {}
  /\ open_failed = {}
  /\ prev_missed = {}
  /\ disconnected = <<>>
  /\ quit_flag = FALSE
  /\ running = TRUE
  /\ exc = "none"
  /\ console_out = "Welcome"
  /\ ready = FALSE
  /\ not_ready = 0
  /\ i = 0
  /\ cam_ready = FALSE
  /\ batt_ready = FALSE
  /\ sdcard_ready = FALSE
  /\ reports = <<>>
  /\ cancel_flag = FALSE
  /\ last_key = "none"
  /\ tasks = <<>>
  /\ shutter_cmds = [n \in Names |-> <<>>]
  /\ rec_result = "none"
  /\ enf_model = "none"
  /\ fps = "unbound"
  /\ lens = "unbound"
  /\ settings = <<>>
  /\ entry = 0
  /\ attempt = 0
  /\ inflight = <<>>
  /\ last_write = NoWrite
  /\ issued = <<>>
  /\ enforced = {}
  /\ unsupported = {}
  /\ exhausted = {}
  /\ timeout = <<>>
  /\ waited = 0

\* An exception nobody catches leaves main(): the process ends.
Crash(e) ==
  /\ pc' = "crashed"
  /\ exc' = e

\* The main prompt is shown (while running) and answered.
AtPrompt ==
  /\ pc = "prompt"
  /\ running
  /\ ncommands < MaxCommands
  /\ ncommands' = ncommands + 1

\* ------------------------------------------------------------- connect

\* prompt_device_selection: "None" when nothing was found, else the
\* operator picks All, None or one of the found names.
PromptChoices(devices) ==
  IF devices # <<>> THEN {"All", "None"} \cup SeqToSet(devices) ELSE {"None"}

\* main(), first_action == "Connect": scan, prompt, and for a choice other
\* than "None" enter connect_camera (retry = True).
CmdConnect ==
  /\ AtPrompt
  /\ \E devices \in ScanResults : \E choice \in PromptChoices(devices) :
       /\ found_devices' = devices
       /\ connect_prompt' = choice
       /\ IF choice = "None"
          THEN /\ pc' = "prompt"
               /\ UNCHANGED <<retry, passes>>
          ELSE /\ pc' = "conn_while"
               /\ retry' = TRUE
               /\ passes' = 0
  /\ console_out' = "connect prompt"
  /\ UNCHANGED <<connected_cameras, handles, idx, missed_connections,
                 opened_ok, open_failed, prev_missed, disconnectVars,
                 running, exc>>
  /\ UNCHANGED <<readyVars, recordVars>>
  /\ UNCHANGED <<settingsVars, timerVars>>

\* The names one pass walks over: every found name for "All", else the one.
PassNames ==
  IF connect_prompt = "All" THEN found_devices ELSE <<connect_prompt>>

\* while retry: a pass begins with an empty missed list and retry = False;
\* with retry False the function returns and main() goes on to
\* enforce_camera_settings.
ConnWhile ==
  /\ pc = "conn_while"
  /\ IF retry
     THEN /\ missed_connections' = <<>>
          /\ retry' = FALSE
          /\ idx' = 1
          /\ passes' = passes + 1
          /\ opened_ok' = {}
          /\ open_failed' = {}
          /\ prev_missed' = SeqToSet(missed_connections)
          /\ pc' = "conn_pass"
     ELSE /\ pc' = "enforce"
          /\ idx' = 1
          /\ prev_missed' = {}
          /\ UNCHANGED <<missed_connections, retry, passes, opened_ok,
                         open_failed>>
  /\ UNCHANGED <<ncommands, connected_cameras, handles, found_devices,
                 connect_prompt, disconnectVars, running, exc, console_out>>
  /\ UNCHANGED <<readyVars, recordVars>>
  /\ UNCHANGED <<settingsVars, timerVars>>

\* if name in connected_cameras: print and continue.
ConnAlready ==
  /\ pc = "conn_pass"
  /\ idx <= Len(PassNames)
  /\ DictHas(connected_cameras, PassNames[idx])
  /\ console_out' = "already connected"
  /\ idx' = idx + 1
  /\ UNCHANGED <<pc, ncommands, connected_cameras, handles, connectVars,
                 disconnectVars, running, exc>>
  /\ UNCHANGED <<readyVars, recordVars>>
  /\ UNCHANGED <<settingsVars, timerVars>>

ConnMustOpen_Always(name) == TRUE

\* The guard of the open attempt.
ConnMustOpen(name) == ~DictHas(connected_cameras, name)

\* cam = WirelessGoPro(target=name); await cam.open() returns:
\* connected_cameras[name] = cam.
ConnOpenOk ==
  /\ pc = "conn_pass"
  /\ idx <= Len(PassNames)
  /\ ConnMustOpen(PassNames[idx])
  /\ handles' = Append(handles, [target |-> PassNames[idx], close_called |-> FALSE])
  /\ connected_cameras' = DictSet(connected_cameras, PassNames[idx], Len(handles) + 1)
  /\ opened_ok' = opened_ok \cup {PassNames[idx]}
  /\ console_out' = "Connected"
  /\ idx' = idx + 1
  /\ UNCHANGED <<pc, ncommands, found_devices, connect_prompt,
                 missed_connections, retry, passes, open_failed, prev_missed,
                 disconnectVars, running, exc>>
  /\ UNCHANGED <<readyVars, recordVars>>
  /\ UNCHANGED <<settingsVars, timerVars>>

OnOpenError_Unreported(missed, name) == missed

\* What the two except clauses do with the failing name.
OnOpenError(missed, name) == Append(missed, name)

AfterOpenError_Break(k) == Len(PassNames) + 1

\* Where the for loop goes after an except clause: to the next name.
AfterOpenError(k) == k + 1

\* await cam.open() raises FailedToFindDevice or ConnectFailed: the name is
\* appended to missed_connections and the loop goes on.
ConnOpenFail ==
  /\ pc = "conn_pass"
  /\ idx <= Len(PassNames)
  /\ ConnMustOpen(PassNames[idx])
  /\ \E e \in {"FailedToFindDevice", "ConnectFailed"} : console_out' = e
  /\ missed_connections' = OnOpenError(missed_connections, PassNames[idx])
  /\ open_failed' = open_failed \cup {PassNames[idx]}
  /\ idx' = AfterOpenError(idx)
  /\ UNCHANGED <<pc, ncommands, connected_cameras, handles, found_devices,
                 connect_prompt, retry, passes, opened_ok, prev_missed,
                 disconnectVars, running, exc>>
  /\ UNCHANGED <<readyVars, recordVars>>
  /\ UNCHANGED <<settingsVars, timerVars>>

\* End of the pass: if missed_connections: retry = Confirm.ask(...).
ConnPassEnd ==
  /\ pc = "conn_pass"
  /\ idx > Len(PassNames)
  /\ IF missed_connections # <<>>
     THEN /\ \E answer \in BOOLEAN :
               /\ answer => passes < MaxPasses
               /\ retry' = answer
          /\ console_out' = "Retry?"
     ELSE UNCHANGED <<retry, console_out>>
  /\ pc' = "conn_while"
  /\ UNCHANGED <<ncommands, connected_cameras, handles, found_devices,
                 connect_prompt, idx, missed_connections, passes, opened_ok,
                 open_failed, prev_missed, disconnectVars, running, exc>>
  /\ UNCHANGED <<readyVars, recordVars>>
  /\ UNCHANGED <<settingsVars, timerVars>>

\* ------------------------------------------------------------- settings

Models == {"HERO13 Black", "HERO12 Black", "HERO11 Black"}

SupportedModel(model) == model \in {"HERO13 Black", "HERO12 Black"}

\* enforce_camera_settings, one camera of the for loop: the preset group is
\* loaded, the model is read and the plan of that model is built and
\* written.  A model without a plan raises ValueError, which nothing
\* catches.  antiflicker_read is whether one of the reads of Anti_Flicker
\* succeeded with a known value: if none did, the plan's frame rate is an
\* unbound local and building the plan raises UnboundLocalError.
EnforceCamera ==
  /\ pc = "enforce"
  /\ idx <= Len(connected_cameras)
  /\ \E model \in Models, antiflicker_read \in BOOLEAN :
       IF ~SupportedModel(model)
       THEN /\ Crash("ValueError")
            /\ console_out' = "model not supported"
            /\ UNCHANGED idx
       ELSE IF ~antiflicker_read
       THEN /\ Crash("UnboundLocalError")
            /\ console_out' = "Could not get Anti_Flicker"
            /\ UNCHANGED idx
       ELSE /\ idx' = idx + 1
            /\ console_out' = "settings written"
            /\ UNCHANGED <<pc, exc>>
  /\ UNCHANGED <<ncommands, connected_cameras, handles, connectVars,
                 disconnectVars, running>>
  /\ UNCHANGED <<readyVars, recordVars>>
  /\ UNCHANGED <<settingsVars, timerVars>>

\* The for loop of enforce_camera_settings is over: back to the prompt.
EnforceDone ==
  /\ pc = "enforce"
  /\ idx > Len(connected_cameras)
  /\ pc' = "prompt"
  /\ UNCHANGED <<ncommands, connected_cameras, handles, idx, connectVars,
                 disconnectVars, running, exc, console_out>>
  /\ UNCHANGED <<readyVars, recordVars>>
  /\ UNCHANGED <<settingsVars, timerVars>>

\* ------------------------------------------------------------- disconnect

\* disconnect_cameras(connected_cameras, quit_flag) is entered: with
\* cameras connected the close loop starts; with none the function returns
\* at once, printing a message unless quit_flag is set.
EnterDisconnect(flag) ==
  /\ quit_flag' = flag
  /\ disconnected' = <<>>
  /\ IF connected_cameras # <<>>
     THEN /\ pc' = "disc_close"
          /\ idx' = 1
          /\ UNCHANGED <<running, console_out>>
     ELSE /\ UNCHANGED idx
          /\ IF flag
             THEN /\ pc' = "done"
                  /\ running' = FALSE
                  /\ console_out' = "Goodbye!"
             ELSE /\ pc' = "prompt"
                  /\ running' = running
                  /\ console_out' = "No cameras are currently connected"

\* main(), first_action == "Disconnect".
CmdDisconnect ==
  /\ AtPrompt
  /\ EnterDisconnect(FALSE)
  /\ UNCHANGED <<connected_cameras, handles, connectVars, exc>>
  /\ UNCHANGED <<readyVars, recordVars>>
  /\ UNCHANGED <<settingsVars, timerVars>>

\* main(), first_action == "Quit".
CmdQuit ==
  /\ AtPrompt
  /\ EnterDisconnect(TRUE)
  /\ UNCHANGED <<connected_cameras, handles, connectVars, exc>>
  /\ UNCHANGED <<readyVars, recordVars>>
  /\ UNCHANGED <<settingsVars, timerVars>>

MarkClosed(hs, h) == [hs EXCEPT ![h].close_called = TRUE]

\* for cam in connected_cameras: await connected_cameras[cam].close()
\* returns; disconnected.append(cam).
DiscCloseOk ==
  /\ pc = "disc_close"
  /\ idx <= Len(connected_cameras)
  /\ handles' = MarkClosed(handles, connected_cameras[idx].cam)
  /\ disconnected' = Append(disconnected, connected_cameras[idx].name)
  /\ console_out' = "Disconnected"
  /\ idx' = idx + 1
  /\ UNCHANGED <<pc, ncommands, connected_cameras, connectVars, quit_flag,
                 running, exc>>
  /\ UNCHANGED <<readyVars, recordVars>>
  /\ UNCHANGED <<settingsVars, timerVars>>

\* close() raises (the link broke while closing): there is no try around
\* it, so the exception leaves disconnect_cameras and main().
DiscCloseRaise ==
  /\ pc = "disc_close"
  /\ idx <= Len(connected_cameras)
  /\ handles' = MarkClosed(handles, connected_cameras[idx].cam)
  /\ Crash("close")
  /\ UNCHANGED <<ncommands, connected_cameras, idx, connectVars,
                 disconnectVars, running, console_out>>
  /\ UNCHANGED <<readyVars, recordVars>>
  /\ UNCHANGED <<settingsVars, timerVars>>

DeleteDisconnected_SkipFirst(d, closed) ==
  IF closed = <<>> THEN d ELSE DictDelAll(d, Tail(closed))

\* What the second loop leaves of the dict: for cam in disconnected:
\* del connected_cameras[cam].
DeleteDisconnected(d, closed) == DictDelAll(d, closed)

\* The close loop is over: the closed names are deleted and the function
\* returns, to the prompt or, for Quit, to the end of main().
DiscDelete ==
  /\ pc = "disc_close"
  /\ idx > Len(connected_cameras)
  /\ connected_cameras' = DeleteDisconnected(connected_cameras, disconnected)
  /\ IF quit_flag
     THEN /\ pc' = "done"
          /\ running' = FALSE
          /\ console_out' = "Goodbye!"
     ELSE /\ pc' = "prompt"
          /\ UNCHANGED <<running, console_out>>
  /\ UNCHANGED <<ncommands, handles, idx, connectVars, disconnectVars, exc>>
  /\ UNCHANGED <<readyVars, recordVars>>
  /\ UNCHANGED <<settingsVars, timerVars>>

\* ------------------------------------------------------------- view

\* main(), first_action == "View": the table of the connected cameras, or
\* a message when there is none.
CmdView ==
  /\ AtPrompt
  /\ console_out' = IF connected_cameras # <<>> THEN "camera table"
                    ELSE "No cameras currently connected"
  /\ UNCHANGED <<pc, connected_cameras, handles, idx, connectVars,
                 disconnectVars, running, exc>>
  /\ UNCHANGED <<readyVars, recordVars>>
  /\ UNCHANGED <<settingsVars, timerVars>>

\* ------------------------------------------------------------- readiness

\* range(10): the status reads one camera gets.
PollBound == 10
\* verify_battery: ready only above 15 percent.
BatteryFloor == 15
\* verify_storage: ready only above 1e6 kilobytes.
StorageFloor == 1000000

BatteryValues == {BatteryFloor, BatteryFloor + 1}
StorageValues == {StorageFloor, StorageFloor + 1}

verify_battery(batt) == ~(batt <= BatteryFloor)

verify_storage(storage) == ~(storage <= StorageFloor)

Diagnostic_Generic(r, b, s) ==
  IF r /\ b /\ s THEN "is ready!" ELSE "is not ready"

\* The if/elif chain on (ready, batt_ready, sdcard_ready): the message of
\* the camera.
Diagnostic(r, b, s) ==
  IF r /\ b /\ s THEN "is ready!"
  ELSE IF r /\ b /\ ~s THEN "low storage"
  ELSE IF r /\ ~b /\ ~s THEN "low storage and battery"
  ELSE IF r /\ ~b /\ s THEN "low battery"
  ELSE "is not ready"

CountsNotReady_UnreachableOnly(r, b, s) == ~r

\* The same chain: whether not_ready is incremented.
CountsNotReady(r, b, s) == ~(r /\ b /\ s)

MayPoll_OneMore(n) == n <= PollBound

\* for i in range(10): another status read is made after n unhealthy ones.
MayPoll(n) == n < PollBound

StartFlags_True == [batt_ready |-> TRUE, sdcard_ready |-> TRUE]

\* batt_ready and sdcard_ready as the for loop sets them for each camera
\* before the first status read.
StartFlags == [batt_ready |-> FALSE, sdcard_ready |-> FALSE]

\* main(), first_action == "Record": with cameras connected
\* ready_to_record begins with its first camera, else a message.
CmdRecord ==
  /\ AtPrompt
  /\ IF connected_cameras # <<>>
     THEN /\ pc' = "ready_poll"
          /\ not_ready' = 0
          /\ idx' = 1
          /\ i' = 0
          /\ cam_ready' = FALSE
          /\ batt_ready' = FALSE
          /\ sdcard_ready' = FALSE
          /\ reports' = <<>>
          /\ UNCHANGED console_out
     ELSE /\ console_out' = "No cameras currently connected"
          /\ UNCHANGED <<pc, idx, not_ready, i, cam_ready, batt_ready,
                         sdcard_ready, reports>>
  /\ UNCHANGED <<connected_cameras, handles, connectVars, disconnectVars,
                 running, exc, ready, recordVars>>
  /\ UNCHANGED <<settingsVars, timerVars>>

\* The camera's if/elif chain has run: the next camera of the for loop
\* starts with its three flags False.  fetched is what was read from the
\* camera besides its status; diag is the message printed for it and
\* counted whether the chain incremented not_ready.
NextCamera(r, b, s, fetched) ==
  /\ not_ready' = IF CountsNotReady(r, b, s) THEN not_ready + 1 ELSE not_ready
  /\ reports' = Append(reports, [name |-> connected_cameras[idx].name,
                                 ready |-> r, batt_ready |-> b,
                                 sdcard_ready |-> s, fetched |-> fetched,
                                 diag |-> Diagnostic(r, b, s),
                                 counted |-> CountsNotReady(r, b, s)])
  /\ console_out' = Diagnostic(r, b, s)
  /\ cam_ready' = r
  /\ batt_ready' = b
  /\ sdcard_ready' = s
  /\ idx' = idx + 1
  /\ i' = 0

\* A status read that reports SUCCESS and a true value: ready = True, the
\* battery and the storage are read and verified, break.
ReadyHealthy ==
  /\ pc = "ready_poll"
  /\ idx <= Len(connected_cameras)
  /\ MayPoll(i)
  /\ \E batt \in BatteryValues, storage \in StorageValues :
       NextCamera(TRUE, verify_battery(batt), verify_storage(storage),
                  {"battery", "storage"})
  /\ UNCHANGED <<pc, ncommands, connected_cameras, handles, connectVars,
                 disconnectVars, running, exc, ready, recordVars>>
  /\ UNCHANGED <<settingsVars, timerVars>>

\* A status read that reports an error or a false value: sleep, read again.
ReadyUnhealthy ==
  /\ pc = "ready_poll"
  /\ idx <= Len(connected_cameras)
  /\ MayPoll(i)
  /\ i' = i + 1
  /\ console_out' = "Status on retry"
  /\ UNCHANGED <<pc, ncommands, connected_cameras, handles, idx, connectVars,
                 disconnectVars, running, exc, ready, not_ready, cam_ready,
                 batt_ready, sdcard_ready, reports, recordVars>>
  /\ UNCHANGED <<settingsVars, timerVars>>

\* All reads of range(10) were unhealthy: the three flags are still False.
ReadyExhausted ==
  /\ pc = "ready_poll"
  /\ idx <= Len(connected_cameras)
  /\ ~MayPoll(i)
  /\ NextCamera(FALSE, StartFlags.batt_ready, StartFlags.sdcard_ready, {})
  /\ UNCHANGED <<pc, ncommands, connected_cameras, handles, connectVars,
                 disconnectVars, running, exc, ready, recordVars>>
  /\ UNCHANGED <<settingsVars, timerVars>>

\* get_value() of the status, the battery or the storage raises: there is
\* no try in ready_to_record, verify_battery or verify_storage.
ReadyFetchRaise ==
  /\ pc = "ready_poll"
  /\ idx <= Len(connected_cameras)
  /\ MayPoll(i)
  /\ Crash("get_value")
  /\ UNCHANGED <<ncommands, connected_cameras, handles, idx, connectVars,
                 disconnectVars, running, console_out, readyVars, recordVars>>
  /\ UNCHANGED <<settingsVars, timerVars>>

\* The for loop of ready_to_record is over: it returns not_ready == 0 and
\* main() calls record() on True, prints a message on False.  record()
\* starts with cancel_flag False and, after the sleep, its first listener.
ReadyReturn ==
  /\ pc = "ready_poll"
  /\ idx > Len(connected_cameras)
  /\ ready' = (not_ready = 0)
  /\ IF not_ready = 0
     THEN /\ pc' = "rec_wait_start"
          /\ cancel_flag' = FALSE
          /\ last_key' = "none"
          /\ tasks' = <<>>
          /\ shutter_cmds' = [n \in Names |-> <<>>]
          /\ rec_result' = "none"
          /\ console_out' = "waiting for start trigger"
     ELSE /\ pc' = "prompt"
          /\ console_out' = "At least one of the cameras is not ready"
          /\ UNCHANGED recordVars
  /\ UNCHANGED <<ncommands, connected_cameras, handles, idx, connectVars,
                 disconnectVars, running, exc, not_ready, i, cam_ready,
                 batt_ready, sdcard_ready, reports>>
  /\ UNCHANGED <<settingsVars, timerVars>>

\* ------------------------------------------------------------- record

Keys == {"page_down", "esc", "other"}

OnRelease_AnyKeyStops(key, flag) ==
  IF key = "esc" THEN [stop |-> TRUE, cancel |-> TRUE]
  ELSE [stop |-> TRUE, cancel |-> flag]

OnRelease_EscNoFlag(key, flag) ==
  IF key \in {"page_down", "esc"} THEN [stop |-> TRUE, cancel |-> flag]
  ELSE [stop |-> FALSE, cancel |-> flag]

\* _on_release(key): [stop |-> the listener stops (return False),
\* cancel |-> the value cancel_flag has afterwards].
OnRelease(key, flag) ==
  IF key = "page_down" THEN [stop |-> TRUE, cancel |-> flag]
  ELSE IF key = "esc" THEN [stop |-> TRUE, cancel |-> TRUE]
  ELSE [stop |-> FALSE, cancel |-> flag]

\* for cam in connected_cameras.values(): tg.create_task(set_shutter(...)):
\* one task per entry of the dict, none of them started yet.
CreateTasks(d, cmd) ==
  [t \in DOMAIN d |-> [name |-> d[t].name, cmd |-> cmd, state |-> "pending",
                       status |-> "none"]]

\* A key is released while the first listener runs.  Page Down stops the
\* listener and, cancel_flag being False, the start tasks are created; ESC
\* stops it with cancel_flag set and record() returns; any other key is
\* logged and the listener goes on.
RecStartKey ==
  /\ pc = "rec_wait_start"
  /\ \E key \in Keys :
       LET r == OnRelease(key, cancel_flag) IN
       /\ last_key' = key
       /\ cancel_flag' = r.cancel
       /\ IF ~r.stop
          THEN UNCHANGED <<pc, tasks, rec_result, console_out>>
          ELSE IF r.cancel
          THEN /\ pc' = "prompt"
               /\ rec_result' = "cancelled"
               /\ console_out' = "Recording cancelled."
               /\ UNCHANGED tasks
          ELSE /\ pc' = "rec_start_group"
               /\ tasks' = CreateTasks(connected_cameras, "ENABLE")
               /\ UNCHANGED <<rec_result, console_out>>
  /\ UNCHANGED <<ncommands, connected_cameras, handles, idx, connectVars,
                 disconnectVars, running, exc, readyVars, shutter_cmds>>
  /\ UNCHANGED <<settingsVars, timerVars>>

InGroup == pc \in {"rec_start_group", "rec_stop_group"}

Settled(task) == task.state \in {"done", "raised", "cancelled"}

\* A task runs up to the write of its command: the camera receives it.
TaskSend ==
  /\ InGroup
  /\ \E t \in DOMAIN tasks :
       /\ tasks[t].state = "pending"
       /\ tasks' = [tasks EXCEPT ![t].state = "sent"]
       /\ shutter_cmds' = [shutter_cmds EXCEPT
                             ![tasks[t].name] = Append(@, tasks[t].cmd)]
  /\ UNCHANGED <<pc, ncommands, connected_cameras, handles, idx, connectVars,
                 disconnectVars, running, exc, console_out, readyVars,
                 cancel_flag, last_key, rec_result>>
  /\ UNCHANGED <<settingsVars, timerVars>>

\* set_shutter returns its response, whose status is SUCCESS or an error
\* code; record() reads neither.
TaskReturn ==
  /\ InGroup
  /\ \E t \in DOMAIN tasks, st \in {"SUCCESS", "ERROR"} :
       /\ tasks[t].state = "sent"
       /\ tasks' = [tasks EXCEPT ![t].state = "done", ![t].status = st]
  /\ UNCHANGED <<pc, ncommands, connected_cameras, handles, idx, connectVars,
                 disconnectVars, running, exc, console_out, readyVars,
                 cancel_flag, last_key, shutter_cmds, rec_result>>
  /\ UNCHANGED <<settingsVars, timerVars>>

\* asyncio.TaskGroup, when task t ends with an exception: every task of the
\* group that has not finished is cancelled.
AbortGroup(ts, t) ==
  [u \in DOMAIN ts |->
     IF u = t THEN [ts[u] EXCEPT !.state = "raised"]
     ELSE IF Settled(ts[u]) THEN ts[u]
     ELSE [ts[u] EXCEPT !.state = "cancelled"]]

\* set_shutter raises (no response in time, link lost), before or after
\* its command was written.
TaskRaise ==
  /\ InGroup
  /\ \E t \in DOMAIN tasks :
       /\ tasks[t].state \in {"pending", "sent"}
       /\ tasks' = AbortGroup(tasks, t)
  /\ UNCHANGED <<pc, ncommands, connected_cameras, handles, idx, connectVars,
                 disconnectVars, running, exc, console_out, readyVars,
                 cancel_flag, last_key, shutter_cmds, rec_result>>
  /\ UNCHANGED <<settingsVars, timerVars>>

GroupExits_FirstOnly(ts) == ts = <<>> \/ Settled(ts[1])

\* async with asyncio.TaskGroup(): the block is left when every task of the
\* group has finished.
GroupExits(ts) == \A t \in DOMAIN ts : Settled(ts[t])

GroupRaised(ts) == \E t \in DOMAIN ts : ts[t].state = "raised"

\* The start group is left: with a task that raised, the ExceptionGroup
\* leaves record() and main(); else "Recording started." is logged and the
\* second listener starts.
StartGroupExit ==
  /\ pc = "rec_start_group"
  /\ GroupExits(tasks)
  /\ IF GroupRaised(tasks)
     THEN /\ Crash("ExceptionGroup")
          /\ UNCHANGED console_out
     ELSE /\ pc' = "rec_wait_stop"
          /\ console_out' = "Recording started."
          /\ UNCHANGED exc
  /\ UNCHANGED <<ncommands, connected_cameras, handles, idx, connectVars,
                 disconnectVars, running, readyVars, recordVars>>
  /\ UNCHANGED <<settingsVars, timerVars>>

\* A key is released while the second listener runs: the same _on_release.
\* When the listener stops the stop tasks are created; cancel_flag is not
\* read again.
RecStopKey ==
  /\ pc = "rec_wait_stop"
  /\ \E key \in Keys :
       LET r == OnRelease(key, cancel_flag) IN
       /\ last_key' = key
       /\ cancel_flag' = r.cancel
       /\ IF ~r.stop
          THEN UNCHANGED <<pc, tasks>>
          ELSE /\ pc' = "rec_stop_group"
               /\ tasks' = CreateTasks(connected_cameras, "DISABLE")
  /\ UNCHANGED <<ncommands, connected_cameras, handles, idx, connectVars,
                 disconnectVars, running, exc, console_out, readyVars,
                 shutter_cmds, rec_result>>
  /\ UNCHANGED <<settingsVars, timerVars>>

\* The stop group is left: with a task that raised, the ExceptionGroup
\* leaves record() and main(); else record() returns to the main loop.
StopGroupExit ==
  /\ pc = "rec_stop_group"
  /\ GroupExits(tasks)
  /\ IF GroupRaised(tasks)
     THEN /\ Crash("ExceptionGroup")
          /\ UNCHANGED rec_result
     ELSE /\ pc' = "prompt"
          /\ rec_result' = "stopped"
          /\ UNCHANGED exc
  /\ UNCHANGED <<ncommands, connected_cameras, handles, idx, connectVars,
                 disconnectVars, running, console_out, readyVars,
                 cancel_flag, last_key, tasks, shutter_cmds>>
  /\ UNCHANGED <<settingsVars, timerVars>>

Next ==
  \/ CmdConnect
  \/ ConnWhile
  \/ ConnAlready
  \/ ConnOpenOk
  \/ ConnOpenFail
  \/ ConnPassEnd
  \/ EnforceCamera
  \/ EnforceDone
  \/ CmdDisconnect
  \/ CmdQuit
  \/ DiscCloseOk
  \/ DiscCloseRaise
  \/ DiscDelete
  \/ CmdView
  \/ CmdRecord
  \/ ReadyHealthy
  \/ ReadyUnhealthy
  \/ ReadyExhausted
  \/ ReadyFetchRaise
  \/ ReadyReturn
  \/ RecStartKey
  \/ TaskSend
  \/ TaskReturn
  \/ TaskRaise
  \/ StartGroupExit
  \/ RecStopKey
  \/ StopGroupExit

Spec == Init /\ [][Next]_vars

\* ------------------------------------------- settings, request by request

\* enforce_camera_settings(connected_cameras, retries = 5).
Retries == 5

RangeHas_OneLess(n) == n < Retries - 1

\* for i in range(retries): whether the loop has an iteration with i = n.
RangeHas(n) == n < Retries

\* _check_setting_set_response(resp, setting, name, retry).
check_setting_set_response(status) == status = "SUCCESS"

\* _check_setting_get_response(resp, setting, name, retry).
check_setting_get_response(status) == status = "SUCCESS"

Statuses == {"SUCCESS", "ERROR"}

\* What anti_flicker.get_value() can carry: 60 Hz (NUM_60HZ, NTSC), 50 Hz
\* (NUM_50HZ, PAL) or a value the code does not know.
AntiFlickerValues == {"60HZ", "50HZ", "other"}

\* What video_lens.get_value() can carry when it succeeds.
LensValues == {"LINEAR", "WIDE"}

\* resp.data of a video_lens read that did not succeed: nothing in the code
\* constrains it.
FailedLensValues == LensValues \cup {"None"}

\* The if / elif / else under a successful read of Anti_Flicker: the value
\* fps (frame_rate) has afterwards.
FpsAfter(data, old) ==
  IF data = "60HZ" THEN "30"
  ELSE IF data = "50HZ" THEN "50"
  ELSE old

\* The value lens has after a successful read of Video_Lens and the answer
\* to "Do you want to switch to the default (linear) field of view?".
LensAfter(data, answer) ==
  IF data # "LINEAR" /\ answer = "Yes" THEN "LINEAR" ELSE data

Setting(key, value) == [key |-> key, value |-> value]

\* The settings dict _hero12_settings returns, in insertion order.
hero12_settings(l, f) ==
  << Setting("load_preset_group", "VIDEO"),
     Setting("controls", "PRO"),
     Setting("profiles", "STANDARD"),
     Setting("video_lens", l),
     Setting("video_aspect_ratio", "16_9"),
     Setting("video_resolution", "1080"),
     Setting("frames_per_second", f),
     Setting("hypersmooth", "OFF"),
     Setting("hindsight", "OFF"),
     Setting("bit_depth", "8_BIT"),
     Setting("video_bit_rate", "HIGH"),
     Setting("auto_power_down", "30_MIN") >>

\* The settings dict _hero13_settings returns, in insertion order.
hero13_settings(l, f) ==
  << Setting("load_preset_group", "VIDEO"),
     Setting("controls", "PRO"),
     Setting("profiles", "STANDARD"),
     Setting("video_lens", l),
     Setting("video_framing", "16_9"),
     Setting("video_resolution", "1080"),
     Setting("frame_rate", f),
     Setting("hypersmooth", "OFF"),
     Setting("hindsight", "OFF"),
     Setting("bit_depth", "8_BIT"),
     Setting("video_bit_rate", "HIGH") >>

PlanOf_PresetLast(model, l, f) ==
  IF model = "HERO13 Black"
  THEN Tail(hero13_settings(l, f)) \o <<Head(hero13_settings(l, f))>>
  ELSE Tail(hero12_settings(l, f)) \o <<Head(hero12_settings(l, f))>>

\* if model == "HERO13 Black": ... elif model == "HERO12 Black": ...
PlanOf(model, l, f) ==
  IF model = "HERO13 Black" THEN hero13_settings(l, f)
  ELSE hero12_settings(l, f)

\* The setting the write loop is at: the preset group of the loop before
\* the plan (entry 0), or the entry-th key of the plan.
CurrentKey ==
  IF entry = 0 THEN "load_preset_group" ELSE settings[entry].key

MayIssue_TwoAtOnce(pending) == Len(pending) <= 1

\* resp = await ...: the coroutine sends its next request only when the
\* one before has been answered.
MayIssue(pending) == pending = <<>>

\* for name, cam in connected_cameras.items(): the next camera begins with
\* the preset loop; _heroNN_settings will run in a fresh frame, its locals
\* unbound.
EnfCamera ==
  /\ pc = "enf_camera"
  /\ idx <= Len(connected_cameras)
  /\ pc' = "enf_write"
  /\ entry' = 0
  /\ attempt' = 0
  /\ enf_model' = "none"
  /\ fps' = "unbound"
  /\ lens' = "unbound"
  /\ issued' = <<>>
  /\ last_write' = NoWrite
  /\ exhausted' = {}
  /\ UNCHANGED <<ncommands, connected_cameras, handles, idx, connectVars,
                 disconnectVars, running, exc, console_out, readyVars,
                 recordVars, settings, inflight, enforced, unsupported,
                 timerVars>>

\* The for loop over the cameras is over: enforce_camera_settings returns.
EnfReturn ==
  /\ pc = "enf_camera"
  /\ idx > Len(connected_cameras)
  /\ pc' = "prompt"
  /\ UNCHANGED <<ncommands, connected_cameras, handles, idx, connectVars,
                 disconnectVars, running, exc, console_out, readyVars,
                 recordVars, settingsVars, timerVars>>

\* cam.ble_command.load_preset_group(...) or cam.ble_setting.<setting>.set(
\* ...) is called: the request goes to the camera.
WriteIssue ==
  /\ pc = "enf_write"
  /\ MayIssue(inflight)
  /\ inflight' = Append(inflight, CurrentKey)
  /\ issued' = IF entry >= 1 /\ attempt = 0
               THEN Append(issued, CurrentKey) ELSE issued
  /\ UNCHANGED <<pc, ncommands, connected_cameras, handles, idx, connectVars,
                 disconnectVars, running, exc, console_out, readyVars,
                 recordVars, enf_model, fps, lens, settings, entry, attempt,
                 last_write, enforced, unsupported, exhausted, timerVars>>

\* The camera answers the write.  SUCCESS breaks out of the retry loop; any
\* other status goes to the next i, the last i printing the warning.  When
\* the retry loop is left the preset loop goes on to the model, a plan
\* entry to the next entry, and the last entry to the next camera.
WriteResponse ==
  /\ pc = "enf_write"
  /\ inflight # <<>>
  /\ \E status \in Statuses :
       LET ok   == check_setting_set_response(status)
           over == ok \/ ~RangeHas(attempt + 1)
       IN
       /\ inflight' = Tail(inflight)
       /\ last_write' = [entry |-> entry, key |-> Head(inflight),
                         attempt |-> attempt + 1, status |-> status]
       /\ console_out' = IF ~ok /\ attempt = Retries - 1
                         THEN "did not succeed in changing the setting"
                         ELSE console_out
       /\ attempt' = IF over THEN 0 ELSE attempt + 1
       /\ IF ~over
          THEN UNCHANGED <<pc, entry, idx, enforced>>
          ELSE IF entry = 0
          THEN /\ pc' = "enf_model"
               /\ UNCHANGED <<entry, idx, enforced>>
          ELSE IF entry < Len(settings)
          THEN /\ entry' = entry + 1
               /\ UNCHANGED <<pc, idx, enforced>>
          ELSE /\ pc' = "enf_camera"
               /\ idx' = idx + 1
               /\ enforced' = enforced \cup {connected_cameras[idx].name}
               /\ UNCHANGED entry
  /\ UNCHANGED <<ncommands, connected_cameras, handles, connectVars,
                 disconnectVars, running, exc, readyVars, recordVars,
                 enf_model, fps, lens, settings, issued, unsupported,
                 exhausted, timerVars>>

\* model = await get_camera_model(cam): a model with a plan goes on to
\* _heroNN_settings; any other raises ValueError, which neither
\* enforce_camera_settings nor main() catches.
EnfModel ==
  /\ pc = "enf_model"
  /\ \E model \in Models :
       /\ enf_model' = model
       /\ IF SupportedModel(model)
          THEN /\ pc' = "enf_antiflicker"
               /\ UNCHANGED <<exc, console_out, unsupported>>
          ELSE /\ Crash("ValueError")
               /\ console_out' = "model not supported"
               /\ unsupported' = unsupported \cup {connected_cameras[idx].name}
  /\ UNCHANGED <<ncommands, connected_cameras, handles, idx, connectVars,
                 disconnectVars, running, readyVars, recordVars, fps, lens,
                 settings, entry, attempt, inflight, last_write, issued,
                 enforced, exhausted, timerVars>>

\* One get_value() of Anti_Flicker in _heroNN_settings.  A successful read
\* sets fps (frame_rate) for a known value, logs an unknown one, and
\* breaks; a failed read goes to the next i.  Leaving the loop without
\* success logs "Could not get Anti_Flicker value" and goes on.
EnfAntiFlicker ==
  /\ pc = "enf_antiflicker"
  /\ \E status \in Statuses, data \in AntiFlickerValues :
       IF check_setting_get_response(status)
       THEN /\ fps' = FpsAfter(data, fps)
            /\ pc' = "enf_lens"
            /\ attempt' = 0
            /\ UNCHANGED exhausted
       ELSE IF RangeHas(attempt + 1)
       THEN /\ attempt' = attempt + 1
            /\ UNCHANGED <<fps, pc, exhausted>>
       ELSE /\ exhausted' = exhausted \cup {"anti_flicker"}
            /\ pc' = "enf_lens"
            /\ attempt' = 0
            /\ UNCHANGED fps
  /\ UNCHANGED <<ncommands, connected_cameras, handles, idx, connectVars,
                 disconnectVars, running, exc, console_out, readyVars,
                 recordVars, enf_model, lens, settings, entry, inflight,
                 last_write, issued, enforced, unsupported, timerVars>>

\* One get_value() of Video_Lens in _heroNN_settings: lens = resp.data
\* whatever the status; a successful read of another lens than LINEAR asks
\* whether to switch, and breaks; a failed read goes to the next i.
EnfLens ==
  /\ pc = "enf_lens"
  /\ \E status \in Statuses :
       IF check_setting_get_response(status)
       THEN /\ \E data \in LensValues, answer \in {"Yes", "No"} :
                 lens' = LensAfter(data, answer)
            /\ pc' = "enf_plan"
            /\ attempt' = 0
            /\ UNCHANGED exhausted
       ELSE /\ \E data \in FailedLensValues : lens' = data
            /\ IF RangeHas(attempt + 1)
               THEN /\ attempt' = attempt + 1
                    /\ UNCHANGED <<pc, exhausted>>
               ELSE /\ exhausted' = exhausted \cup {"video_lens"}
                    /\ pc' = "enf_plan"
                    /\ attempt' = 0
  /\ UNCHANGED <<ncommands, connected_cameras, handles, idx, connectVars,
                 disconnectVars, running, exc, console_out, readyVars,
                 recordVars, enf_model, fps, settings, entry, inflight,
                 last_write, issued, enforced, unsupported, timerVars>>

\* settings = {...}: the dict literal reads lens and fps (frame_rate).  A
\* name that was never assigned raises UnboundLocalError; otherwise the
\* plan is returned and the write loop starts at its first key.
EnfPlan ==
  /\ pc = "enf_plan"
  /\ IF fps = "unbound" \/ lens = "unbound"
     THEN /\ Crash("UnboundLocalError")
          /\ UNCHANGED <<settings, entry, attempt>>
     ELSE /\ settings' = PlanOf(enf_model, lens, fps)
          /\ entry' = 1
          /\ attempt' = 0
          /\ pc' = "enf_write"
          /\ UNCHANGED exc
  /\ UNCHANGED <<ncommands, connected_cameras, handles, idx, connectVars,
                 disconnectVars, running, console_out, readyVars,
                 recordVars, enf_model, fps, lens, inflight, last_write,
                 issued, enforced, unsupported, exhausted, timerVars>>

\* main() has answered one Connect: connect_camera opened every camera the
\* scan found and returned, and enforce_camera_settings is entered.
InitEnforce ==
  /\ pc = "enf_camera"
  /\ ncommands = 1
  /\ found_devices \in ScanResults \ {<<>>}
  /\ connected_cameras =
       [n \in DOMAIN found_devices |-> [name |-> found_devices[n], cam |-> n]]
  /\ handles =
       [n \in DOMAIN found_devices |->
          [target |-> found_devices[n], close_called |-> FALSE]]
  /\ connect_prompt = "All"
  /\ idx = 1
  /\ missed_connections = <<>>
  /\ retry = FALSE
  /\ passes = 1
  /\ opened_ok = SeqToSet(found_devices)
  /\ open_failed = {}
  /\ prev_missed = {}
  /\ disconnected = <<>>
  /\ quit_flag = FALSE
  /\ running = TRUE
  /\ exc = "none"
  /\ console_out = "Connected"
  /\ ready = FALSE
  /\ not_ready = 0
  /\ i = 0
  /\ cam_ready = FALSE
  /\ batt_ready = FALSE
  /\ sdcard_ready = FALSE
  /\ reports = <<>>
  /\ cancel_flag = FALSE
  /\ last_key = "none"
  /\ tasks = <<>>
  /\ shutter_cmds = [n \in Names |-> <<>>]
  /\ rec_result = "none"
  /\ enf_model = "none"
  /\ fps = "unbound"
  /\ lens = "unbound"
  /\ settings = <<>>
  /\ entry = 0
  /\ attempt = 0
  /\ inflight = <<>>
  /\ last_write = NoWrite
  /\ issued = <<>>
  /\ enforced = {}
  /\ unsupported = {}
  /\ exhausted = {}
  /\ timeout = <<>>
  /\ waited = 0

NextEnforce ==
  \/ EnfCamera
  \/ WriteIssue
  \/ WriteResponse
  \/ EnfModel
  \/ EnfAntiFlicker
  \/ EnfLens
  \/ EnfPlan
  \/ EnfReturn

SpecEnforce == InitEnforce /\ [][NextEnforce]_vars

\* ------------------------------------------------- record() with a timeout

MaxWait == 3

\* The timeouts a caller of record() may pass: None, or a number of seconds.
Timeouts == {<<>>, <<1>>, <<2>>}

\* listener.join(): a second passes while the first listener waits for a
\* key.  The call has no deadline and record() never reads timeout.
Tick ==
  /\ pc = "rec_wait_start"
  /\ waited < MaxWait
  /\ waited' = waited + 1
  /\ UNCHANGED <<pc, ncommands, connected_cameras, handles, idx, connectVars,
                 disconnectVars, running, exc, console_out, readyVars,
                 recordVars, settingsVars, timeout>>

\* record(connected_cameras, timeout) is entered: the cameras the scan
\* found are connected and ready, and the first listener has been started.
InitTimeout ==
  /\ pc = "rec_wait_start"
  /\ ncommands = 2
  /\ found_devices \in ScanResults \ {<<>>}
  /\ connected_cameras =
       [n \in DOMAIN found_devices |-> [name |-> found_devices[n], cam |-> n]]
  /\ handles =
       [n \in DOMAIN found_devices |->
          [target |-> found_devices[n], close_called |-> FALSE]]
  /\ connect_prompt = "All"
  /\ idx = Len(found_devices) + 1
  /\ missed_connections = <<>>
  /\ retry = FALSE
  /\ passes = 1
  /\ opened_ok = SeqToSet(found_devices)
  /\ open_failed = {}
  /\ prev_missed = {}
  /\ disconnected = <<>>
  /\ quit_flag = FALSE
  /\ running = TRUE
  /\ exc = "none"
  /\ console_out = "waiting for start trigger"
  /\ ready = TRUE
  /\ not_ready = 0
  /\ i = 0
  /\ cam_ready = TRUE
  /\ batt_ready = TRUE
  /\ sdcard_ready = TRUE
  /\ reports =
       [n \in DOMAIN found_devices |->
          [name |-> found_devices[n], ready |-> TRUE, batt_ready |-> TRUE,
           sdcard_ready |-> TRUE, fetched |-> {"battery", "storage"},
           diag |-> "is ready!", counted |-> FALSE]]
  /\ cancel_flag = FALSE
  /\ last_key = "none"
  /\ tasks = <<>>
  /\ shutter_cmds = [n \in Names |-> <<>>]
  /\ rec_result = "none"
  /\ enf_model = "none"
  /\ fps = "unbound"
  /\ lens = "unbound"
  /\ settings = <<>>
  /\ entry = 0
  /\ attempt = 0
  /\ inflight = <<>>
  /\ last_write = NoWrite
  /\ issued = <<>>
  /\ enforced = {}
  /\ unsupported = {}
  /\ exhausted = {}
  /\ timeout \in Timeouts
  /\ waited = 0

NextTimeout ==
  \/ Tick
  \/ RecStartKey
  \/ TaskSend
  \/ TaskReturn
  \/ TaskRaise
  \/ StartGroupExit
  \/ RecStopKey
  \/ StopGroupExit

SpecTimeout == InitTimeout /\ [][NextTimeout]_vars

\* ------------------------------------------------------------- properties

NoShutterCommand == \A n \in Names : shutter_cmds[n] = <<>>

Outstanding(task) == task.state \in {"pending", "sent"}

\* The step in which an ESC release is handled by the first listener.
EscInWaitingStart == pc = "rec_wait_start" /\ last_key' = "esc"

\* C1: when ESC is the first recognized edge of the wait for the start
\* trigger, record() returns cancelled without having created a task or
\* sent a shutter command (start or stop) to any camera.
C1_CancelDispatchesNothing ==
  /\ [](rec_result = "cancelled" => NoShutterCommand /\ tasks = <<>> /\ cancel_flag)
  /\ [][EscInWaitingStart =>
          pc' = "prompt" /\ rec_result' = "cancelled" /\ tasks' = <<>>]_vars

C1_Witness ==
  /\ rec_result = "cancelled"
  /\ last_key = "esc"
  /\ Len(connected_cameras) = 2

StartTasks == tasks # <<>> /\ \A t \in DOMAIN tasks : tasks[t].cmd = "ENABLE"

StopTasks == tasks # <<>> /\ \A t \in DOMAIN tasks : tasks[t].cmd = "DISABLE"

\* C2: on the confirm edge every camera of the registry gets a start
\* task, and a start command that fails on one camera does not keep the
\* start commands of the other cameras from running to completion.
C2_BestEffortStart ==
  StartTasks =>
    /\ {tasks[t].name : t \in DOMAIN tasks} = DictKeys(connected_cameras)
    /\ (\E t \in DOMAIN tasks : tasks[t].state = "raised")
         => \A u \in DOMAIN tasks : tasks[u].state # "cancelled"

\* C3: the wait for the stop trigger ends on Page Down only: stop tasks
\* exist only after a Page Down release, never after an ESC release.
C3_StopOnlyOnConfirm ==
  (\E t \in DOMAIN tasks : tasks[t].cmd = "DISABLE") => last_key = "page_down"

\* The stop task of camera n raised: its own command failed.
OwnStopRaised(n) ==
  \E t \in DOMAIN tasks : tasks[t].name = n /\ tasks[t].state = "raised"

\* C4: when record() ends after the edges Confirm, Confirm, every camera
\* of the registry (but one whose own stop command raised) was sent
\* exactly one start and then exactly one stop command, and a camera
\* outside the registry was sent nothing.
C4_RoundTrip ==
  [][(pc = "rec_stop_group" /\ pc' # "rec_stop_group" /\ last_key = "page_down")
       => \A n \in Names :
            IF DictHas(connected_cameras, n)
            THEN OwnStopRaised(n) \/ shutter_cmds'[n] = <<"ENABLE", "DISABLE">>
            ELSE shutter_cmds'[n] = <<>>]_vars

\* C5: "Recording started." is logged and the wait for the stop trigger
\* begins only when no start task is outstanding, and record() ends
\* (returns or raises) only when no task of its group is outstanding.
C5_FanIn ==
  /\ pc = "rec_wait_stop" =>
       StartTasks /\ \A t \in DOMAIN tasks : ~Outstanding(tasks[t])
  /\ rec_result = "stopped" =>
       StopTasks /\ \A t \in DOMAIN tasks : ~Outstanding(tasks[t])
  /\ exc = "ExceptionGroup" => \A t \in DOMAIN tasks : ~Outstanding(tasks[t])

C5_Witness ==
  /\ rec_result = "stopped"
  /\ Len(tasks) = 2
  /\ \A n \in Names : shutter_cmds[n] = <<"ENABLE", "DISABLE">>

Occurrences(d, n) == Cardinality({k \in DOMAIN d : d[k].name = n})

\* The step in which the loop of connect_camera meets a name that is in
\* the registry.
ConnectOfPresentName ==
  /\ pc = "conn_pass"
  /\ idx <= Len(PassNames)
  /\ DictHas(connected_cameras, PassNames[idx])
  /\ idx' # idx

\* C6: after a successful connect of n, n is in the registry exactly once,
\* with the handle just opened; a connect of a name already in the
\* registry opens no handle and leaves the registry as it is.
C6_ConnectOnce ==
  /\ [](\A n \in Names : Occurrences(connected_cameras, n) <= 1)
  /\ [][Len(handles') > Len(handles) =>
          /\ Len(handles') = Len(handles) + 1
          /\ Occurrences(connected_cameras', handles'[Len(handles')].target) = 1
          /\ DictGet(connected_cameras', handles'[Len(handles')].target) = Len(handles')
          /\ \A n \in DictKeys(connected_cameras) :
               DictGet(connected_cameras', n) = DictGet(connected_cameras, n)]_vars
  /\ [][ConnectOfPresentName =>
          /\ handles' = handles
          /\ connected_cameras' = connected_cameras
          /\ opened_ok' = opened_ok
          /\ open_failed' = open_failed]_vars

C6_Witness ==
  /\ console_out = "already connected"
  /\ pc = "conn_pass"
  /\ Len(connected_cameras) = 2

\* The step in which an open attempt of connect_camera fails.
OpenFails == pc = "conn_pass" /\ open_failed' # open_failed

\* C7: a failed open leaves the registry (and the handles) unchanged and
\* appends the failing name, and nothing else, to the missed connections.
C7_FailedConnect ==
  [][OpenFails =>
       /\ connected_cameras' = connected_cameras
       /\ handles' = handles
       /\ ~DictHas(connected_cameras', PassNames[idx])
       /\ missed_connections' = Append(missed_connections, PassNames[idx])]_vars

C7_Witness ==
  /\ pc = "conn_pass"
  /\ open_failed = {"Cam2"}
  /\ missed_connections = <<"Cam2">>
  /\ DictKeys(connected_cameras) = {"Cam1"}

\* A pass of the connect loop is over.
PassOver == (pc = "conn_pass" /\ idx > Len(PassNames)) \/ (pc = "conn_while" /\ passes > 0)

\* C8: at the end of a pass every name of the pass was dealt with (it is
\* in the registry or among the missed), every name whose open succeeded
\* is in the registry, and the missed list holds exactly the names whose
\* open failed in the pass, each once.
C8_ConnectAll ==
  PassOver =>
    /\ \A n \in SeqToSet(PassNames) :
         DictHas(connected_cameras, n) \/ n \in SeqToSet(missed_connections)
    /\ opened_ok \subseteq DictKeys(connected_cameras)
    /\ SeqToSet(missed_connections) = open_failed
    /\ Len(missed_connections) = Cardinality(open_failed)
    /\ open_failed \cap DictKeys(connected_cameras) = {}

C8_Witness ==
  /\ PassOver
  /\ Len(PassNames) = 2
  /\ missed_connections = <<PassNames[1]>>
  /\ opened_ok = {PassNames[2]}

\* C9: when disconnect_cameras ends, the registry is empty, whatever the
\* close calls did.
C9_EmptyAfterDisconnectAll ==
  [][(pc = "disc_close" /\ pc' # "disc_close") => connected_cameras' = <<>>]_vars

\* The step in which disconnect_cameras is called on an empty registry.
DisconnectOfEmpty ==
  /\ pc = "prompt"
  /\ ncommands' # ncommands
  /\ console_out' \in {"No cameras are currently connected", "Goodbye!"}

\* C10: when disconnect_cameras returns, no name is left in the registry;
\* called on an empty registry it calls close on no handle, raises
\* nothing and leaves the registry empty.
C10_DisconnectIdempotent ==
  /\ [][(pc = "disc_close" /\ pc' \in {"prompt", "done"}) =>
          connected_cameras' = <<>>]_vars
  /\ [][DisconnectOfEmpty =>
          /\ connected_cameras = <<>>
          /\ connected_cameras' = <<>>
          /\ handles' = handles
          /\ exc' = "none"
          /\ pc' \in {"prompt", "done"}]_vars

C10_Witness ==
  /\ console_out = "No cameras are currently connected"
  /\ Len(handles) = 2
  /\ \A h \in DOMAIN handles : handles[h].close_called
  /\ connected_cameras = <<>>


\* The camera is connected: an open() of it succeeded and close() has not
\* been called on that handle.
CurrentlyConnected(n) ==
  \E h \in DOMAIN handles : handles[h].target = n /\ ~handles[h].close_called

RegistryMatchesConnections ==
  \A n \in Names :
    /\ Occurrences(connected_cameras, n) <= 1
    /\ DictHas(connected_cameras, n) <=> CurrentlyConnected(n)
    /\ DictHas(connected_cameras, n) =>
         ~handles[DictGet(connected_cameras, n)].close_called

DisconnectUnfinished == pc = "disc_close" \/ exc = "close"

AllFacts(rep) == rep.ready /\ rep.batt_ready /\ rep.sdcard_ready

\* The step in which ready_to_record returns.
ReadinessReturns == pc = "ready_poll" /\ pc' \in {"prompt", "rec_wait_start"}

\* C12: the result of ready_to_record is true iff every connected camera
\* was checked and has its three facts true.
C12_FleetReadiness ==
  [][ReadinessReturns =>
       /\ [k \in DOMAIN reports |-> reports[k].name]
            = [k \in DOMAIN connected_cameras |-> connected_cameras[k].name]
       /\ ready' <=> \A k \in DOMAIN reports : AllFacts(reports[k])]_vars

C12_Witness ==
  /\ pc = "prompt"
  /\ ~ready
  /\ Len(reports) = 2
  /\ AllFacts(reports[1])
  /\ reports[2].ready /\ reports[2].batt_ready /\ ~reports[2].sdcard_ready
  /\ console_out = "At least one of the cameras is not ready"

\* C13: for a camera whose status was never healthy, neither the battery
\* nor the storage is read and both facts are reported false.
C13_ShortCircuit ==
  \A k \in DOMAIN reports :
    ~reports[k].ready =>
      /\ reports[k].fetched = {}
      /\ ~reports[k].batt_ready
      /\ ~reports[k].sdcard_ready

C13_Witness ==
  /\ Len(reports) = 2
  /\ ~reports[1].ready
  /\ AllFacts(reports[2])

\* C14: ready_to_record never raises: a failing fetch gives a false fact
\* and a fleet result is returned.
C14_ReadinessNeverRaises == exc # "get_value"

\* The step in which ready_to_record is done with a camera.
CameraChecked == pc = "ready_poll" /\ idx' = idx + 1

\* C20: a camera's status is read at most PollBound (10) times; the first
\* healthy read, the (i+1)th, ends the polling of that camera; a camera is
\* left unreachable only after PollBound unhealthy reads.
C20_BoundedPolling ==
  /\ [](pc = "ready_poll" => i <= 10)
  /\ [][CameraChecked =>
          /\ i' = 0
          /\ reports'[idx].ready => i + 1 <= 10
          /\ ~reports'[idx].ready => i = 10]_vars
  /\ [][(pc = "ready_poll" /\ i' # i /\ ~CameraChecked) =>
          i' = i + 1 /\ reports' = reports]_vars

C20_Witness ==
  /\ Len(reports) = 2
  /\ ~reports[1].ready
  /\ reports[2].ready
  /\ pc = "ready_poll"

\* ---- settings enforcement (checked under SpecEnforce)

SettingWarning == "did not succeed in changing the setting"

\* The step in which the camera answers a write.
WriteAnswered == pc = "enf_write" /\ inflight # <<>> /\ inflight' = <<>>

\* The step goes on from the setting being written: from the preset loop to
\* the model, from a plan entry to the next one, from the last entry to the
\* next camera; nothing is raised.
GoesOn ==
  /\ exc' = "none"
  /\ attempt' = 0
  /\ IF entry = 0 THEN pc' = "enf_model"
     ELSE IF entry < Len(settings)
     THEN entry' = entry + 1 /\ pc' = "enf_write"
     ELSE pc' = "enf_camera" /\ idx' = idx + 1

\* C15: a write that fails on every attempt is made exactly Retries times,
\* after which the warning is printed and the write loop goes on to the next
\* entry without raising; a failure before the last attempt is followed by
\* another attempt of the same entry; a write that succeeds is followed by
\* the next entry, never by another attempt.
C15_BoundedWriteRetries ==
  /\ [](attempt < Retries)
  /\ [][WriteAnswered =>
          /\ last_write'.entry = entry
          /\ last_write'.attempt = attempt + 1
          /\ (last_write'.status = "SUCCESS" =>
                GoesOn /\ console_out' = console_out)
          /\ (last_write'.status # "SUCCESS" /\ attempt + 1 < Retries =>
                /\ entry' = entry
                /\ pc' = "enf_write"
                /\ attempt' = attempt + 1
                /\ console_out' = console_out)
          /\ (last_write'.status # "SUCCESS" /\ attempt + 1 = Retries =>
                GoesOn /\ console_out' = SettingWarning)]_vars

\* The write of video_resolution has just failed for the fifth time: the
\* warning is out and the loop is at the next entry.
C15_Witness ==
  /\ pc = "enf_write"
  /\ last_write.key = "video_resolution"
  /\ last_write.status = "ERROR"
  /\ last_write.attempt = Retries
  /\ entry = last_write.entry + 1
  /\ attempt = 0
  /\ console_out = SettingWarning
  /\ exc = "none"

\* C16: when enforce_camera_settings is over and has met a camera whose
\* model has no plan, no exception has left it and every other connected
\* camera has had its whole plan gone through.
C16_UnsupportedModelIsolated ==
  (pc \in {"prompt", "crashed"} /\ unsupported # {}) =>
    /\ exc = "none"
    /\ DictKeys(connected_cameras) \ unsupported \subseteq enforced

\* C17: a camera whose Anti_Flicker pre-read failed on every attempt still
\* gets a plan: building it does not raise, and once the plan is being
\* written it is complete, with a frame rate in it.
C17_PreReadFallback ==
  "anti_flicker" \in exhausted =>
    /\ exc = "none"
    /\ (pc = "enf_write" /\ entry >= 1 =>
          \E j \in DOMAIN settings :
            /\ settings[j].key \in {"frames_per_second", "frame_rate"}
            /\ settings[j].value \in {"30", "50"})

\* C18: at most one write of the camera is unanswered at any time; the keys
\* written are the keys of the plan in the plan's order, the preset group
\* first; and the first write of an entry is sent only when the write
\* before it (the preset loop, for the first entry) has succeeded or has
\* failed Retries times.
C18_StrictPlanOrder ==
  /\ [](Len(inflight) <= 1)
  /\ [](/\ Len(issued) <= Len(settings)
        /\ \A j \in DOMAIN issued : issued[j] = settings[j].key
        /\ (issued # <<>> => issued[1] = "load_preset_group"))
  /\ [][Len(issued') > Len(issued) =>
          /\ Len(issued') = Len(issued) + 1
          /\ last_write.entry = Len(issued)
          /\ (last_write.status = "SUCCESS" \/ last_write.attempt = Retries)]_vars

\* The last of the twelve entries of a HERO12 plan is being written, after
\* an entry before it was given up.
C18_Witness ==
  /\ enf_model = "HERO12 Black"
  /\ Len(issued) = 12
  /\ inflight = <<"auto_power_down">>
  /\ console_out = SettingWarning

\* ---- record() with a timeout (checked under SpecTimeout)

\* C19: record() given a timeout does not wait for the start key longer
\* than that.
C19_TriggerTimeout ==
  (pc = "rec_wait_start" /\ timeout # <<>>) => waited <= timeout[1]

\* ---- connect retry rounds, ignored keys, diagnostics, gating, shutdown

\* The step that ends a pass of the while retry loop.
PassEnds == pc = "conn_pass" /\ pc' = "conn_while"

\* The step that tests while retry after a pass has run.
RetryTested == pc = "conn_while" /\ pc' # "conn_while" /\ passes >= 1

\* C21: a pass that missed nothing ends without asking and leaves retry
\* False; a pass that missed a name asks "Retry?"; after a pass the loop
\* runs another one exactly when retry (the operator's answer) is True, and
\* then some name was missed, and otherwise connect_camera returns; and a
\* retry pass attempts an open for exactly the names the pass before it
\* missed, the names already connected being skipped.
C21_RetryRounds ==
  /\ [][PassEnds =>
          /\ (missed_connections = <<>> =>
                ~retry' /\ console_out' = console_out)
          /\ (missed_connections # <<>> => console_out' = "Retry?")]_vars
  /\ [][RetryTested =>
          IF retry
          THEN /\ pc' = "conn_pass"
               /\ passes' = passes + 1
               /\ missed_connections # <<>>
               /\ prev_missed' = SeqToSet(missed_connections)
          ELSE /\ pc' = "enforce"
               /\ connected_cameras' = connected_cameras
               /\ handles' = handles]_vars
  /\ [](pc = "conn_pass" /\ passes >= 2 =>
          opened_ok \cup open_failed \subseteq prev_missed)
  /\ [][(PassEnds /\ passes >= 2) =>
          opened_ok \cup open_failed = prev_missed]_vars

\* Cam1 and Cam2 were found and All chosen; the first pass missed Cam2, the
\* operator confirmed, and the retry pass has opened Cam2 and nothing else.
C21_Witness ==
  /\ pc = "conn_while"
  /\ passes = 2
  /\ connect_prompt = "All"
  /\ found_devices = <<"Cam1", "Cam2">>
  /\ prev_missed = {"Cam2"}
  /\ opened_ok = {"Cam2"}
  /\ open_failed = {}
  /\ DictKeys(connected_cameras) = {"Cam1", "Cam2"}
  /\ Len(handles) = 2
  /\ ~retry

\* The step in which the first listener handles the release of a key that
\* is neither Page Down nor ESC.
OtherKeyInWaitingStart ==
  pc = "rec_wait_start" /\ last_key' \notin {"page_down", "esc"}

\* C22: the release of any other key while record() waits for the start
\* trigger changes nothing but the key logged: the wait goes on, no task is
\* created, no command is sent, cancel_flag and the registry are as
\* before; and the wait is left only on a Page Down or an ESC release.
C22_OtherKeysIgnored ==
  /\ [][OtherKeyInWaitingStart =>
          /\ pc' = "rec_wait_start"
          /\ cancel_flag' = cancel_flag
          /\ tasks' = tasks
          /\ shutter_cmds' = shutter_cmds
          /\ rec_result' = rec_result
          /\ connected_cameras' = connected_cameras
          /\ handles' = handles
          /\ exc' = exc]_vars
  /\ [][(pc = "rec_wait_start" /\ pc' # "rec_wait_start") =>
          last_key' \in {"page_down", "esc"}]_vars

\* Another key has been released and record() is still waiting, nothing
\* sent.
C22_Witness ==
  /\ pc = "rec_wait_start"
  /\ last_key = "other"
  /\ ~cancel_flag
  /\ tasks = <<>>
  /\ NoShutterCommand
  /\ Len(connected_cameras) = 2

\* C23: each camera checked gets the message of its own combination of
\* (ready, batt_ready, sdcard_ready): "is ready!" for all three true and
\* for nothing else, "is not ready" for an unreachable camera, and low
\* battery, low storage, or both for a reachable one; every camera but an
\* all-true one is counted in not_ready.
C23_DiagnosticPerCombination ==
  /\ \A k \in DOMAIN reports :
       LET rep == reports[k] IN
       /\ (rep.diag = "is ready!" <=> AllFacts(rep))
       /\ (~rep.ready => rep.diag = "is not ready")
       /\ (rep.ready /\ ~rep.batt_ready /\ rep.sdcard_ready =>
             rep.diag = "low battery")
       /\ (rep.ready /\ rep.batt_ready /\ ~rep.sdcard_ready =>
             rep.diag = "low storage")
       /\ (rep.ready /\ ~rep.batt_ready /\ ~rep.sdcard_ready =>
             rep.diag = "low storage and battery")
       /\ (rep.counted <=> ~AllFacts(rep))
  /\ not_ready = Cardinality({k \in DOMAIN reports : reports[k].counted})

\* Two cameras checked in one call, each with its own message.
C23_Witness ==
  /\ Len(reports) = 2
  /\ reports[1].diag = "low battery"
  /\ reports[2].diag = "low storage and battery"
  /\ not_ready = 2

\* record() is running: waiting for a trigger or inside a TaskGroup.
InRecord ==
  pc \in {"rec_wait_start", "rec_start_group", "rec_wait_stop",
          "rec_stop_group"}

\* ready_to_record has gone through the registry as it is now and found
\* every camera ready, and main() holds its True.
FreshlyReady ==
  /\ ready
  /\ connected_cameras # <<>>
  /\ Len(reports) = Len(connected_cameras)
  /\ \A k \in DOMAIN reports :
       reports[k].name = connected_cameras[k].name /\ AllFacts(reports[k])

\* The step in which a camera is sent a shutter command.
ShutterSent ==
  \E n \in Names : Len(shutter_cmds'[n]) > Len(shutter_cmds[n])

\* C24: record() runs, and a shutter command is sent, only after the
\* ready_to_record of the same Record command went through a non-empty
\* registry and returned True; a ready_to_record that returns False goes
\* back to the prompt with no task created and no command sent, and a
\* command answered with an empty registry starts neither the readiness
\* check nor record().
C24_RecordGatedByReadiness ==
  /\ [](InRecord => FreshlyReady)
  /\ [][ShutterSent => InRecord /\ FreshlyReady]_vars
  /\ [][(pc = "ready_poll" /\ pc' = "prompt") =>
          ~ready' /\ shutter_cmds' = shutter_cmds /\ tasks' = tasks]_vars
  /\ [][(pc = "prompt" /\ connected_cameras = <<>>) =>
          /\ pc' \notin {"ready_poll", "rec_wait_start", "rec_start_group",
                         "rec_wait_stop", "rec_stop_group"}
          /\ shutter_cmds' = shutter_cmds
          /\ tasks' = tasks]_vars

\* Both cameras were found ready and each has been sent its start command.
C24_Witness ==
  /\ pc = "rec_start_group"
  /\ Len(connected_cameras) = 2
  /\ \A n \in Names : shutter_cmds[n] = <<"ENABLE">>
  /\ FreshlyReady

\* C25: once Quit has been chosen and disconnect_cameras is over, main()
\* has ended its loop normally, the registry is empty and close has been
\* called on every handle.
C25_CleanShutdown ==
  (quit_flag /\ pc # "disc_close") =>
    /\ pc = "done"
    /\ ~running
    /\ exc = "none"
    /\ connected_cameras = <<>>
    /\ \A h \in DOMAIN handles : handles[h].close_called

====
